---- MODULE Spec2Model ----
(***************************************************************************)
(* State-machine model of the OverflowList custom element                  *)
(* (src/assets/overflow-list.js): its lifecycle callbacks, its observers,  *)
(* the coalescing of change notifications and the reflow pass itself.      *)
(*                                                                         *)
(* The browser's layout of the row during measurement (flex-wrap: wrap,    *)
(* the "more" slot and the pinned element promoted with order: -1) is      *)
(* modelled as greedy line breaking over integer widths; the top of an     *)
(* element is the index of the line it lands on.  A detached element has   *)
(* no boxes: every measured width and the row width are then 0.            *)
(*                                                                         *)
(* Three smaller specifications model pure parts of the theme on their own *)
(* state: LayoutSpec (the partition of #reflowItems over arbitrary item    *)
(* widths), QuantitySpec (QuantitySelectorComponent, src/unnamed/part_005) *)
(* and CartSpec (CartIcon, src/assets/cart-icon.js).                       *)
(***************************************************************************)
EXTENDS Integers, Sequences, FiniteSets, TLC

\* ---------------------------------------------------------------- bounds
MaxItems == 2
MaxWidth == 3
MaxMinimum == 1
MaxListeners == 2
MaxQuantity == 4
MaxStep == 2
MaxItemCount == 2
MaxRadios == 2
MaxRequests == 3
MaxTabs == 3
MaxTimers == 1

\* ---------------------------------------------------------------- values
More == 0
NoPin == 0
NoMinimum == -1
MoreWidth == 1

ItemIds == 1..MaxItems
Widths == 2..MaxWidth
MinimumValues == {NoMinimum, MaxMinimum}
DisabledValues == {"true", "other"}

ItemWidth(i) == 1 + (i % 2)

VARIABLES
  items,          \* light-DOM children of the host, in document order
  containerW,     \* inline size of the row; 0 while the host is detached
  structureOk,    \* the shadow tree has every part #initialize looks up
  attached,       \* the host is connected
  disabledAttr,   \* the disabled attribute: "true", or "other" (absent too)
  minimumItems,   \* the minimum-items attribute, parsed; NoMinimum when absent
  initialized,    \* #refs has been assigned
  listeners,      \* number of 'reflow' listeners registered on the host
  initPending,    \* connectedCallback invocations awaiting #waitForStyles
  ioObserving,    \* #intersectionObserver observes the first/last item
  ioTimers,       \* setTimeout callbacks queued by #handleIntersection
  scheduled,      \* #scheduled
  rafPending,     \* requestAnimationFrame callbacks queued by #handleChange
  timeoutPending, \* setTimeout callbacks queued by those frames
  ol,             \* slots, inline styles, observers and what the handler emitted
  shownAll,       \* showAll() ran and disabled was not changed away from "true"
  last,           \* the handler that ran last: its pinned item, whether it was
                  \* a notification swallowed by #scheduled, whether it threw
  lay,            \* LayoutSpec: two layouts of one row and their measurement
  qs,             \* QuantitySpec: the quantity input, its attributes and buttons
  cart,           \* CartSpec: the cart bubble text and the session-storage entry
  vp,             \* VariantSpec: the variant picker, its radios and its requests
  ss,             \* SlideshowSpec: the layered slideshow, its tabs and panels
  hd              \* HeaderSpec: the header around the list, its menu and drawer

\* the state of the OverflowList element
listVars == <<items, containerW, structureOk, attached, disabledAttr,
              minimumItems, initialized, listeners, initPending, ioObserving,
              ioTimers, scheduled, rafPending, timeoutPending, ol, shownAll, last>>

\* the state of the other components
otherVars == <<lay, qs, cart, vp, ss, hd>>

vars == <<listVars, otherVars>>

\* --------------------------------------------------------------- helpers
Range(s) == {s[k] : k \in 1..Len(s)}

IndexOf(s, e) == CHOOSE k \in 1..Len(s) : s[k] = e

\* ---------------------------------------------------------------- layout
\* getBoundingClientRect().width of an item or of the "more" slot; 0 in a
\* subtree that is not rendered: a detached one, or the one of a header menu
\* that has the class 'hidden'
MeasuredWidth(e) ==
  IF ~attached \/ hd.menuHidden THEN 0
  ELSE IF e = More THEN MoreWidth ELSE ItemWidth(e)

\* inline size of the row
MeasuredContainer == containerW

\* visual order of the row during measurement: order -1 elements first, in
\* tree order (moreFirst: the "more" slot precedes the default slot in the
\* shadow tree), then the remaining items
VisualOrder(elements, pin, moreFirst) ==
  LET rest == SelectSeq(elements, LAMBDA e : e # pin)
  IN IF pin = NoPin THEN <<More>> \o elements
     ELSE IF moreFirst THEN <<More, pin>> \o rest
     ELSE <<pin, More>> \o rest

\* flex-wrap: wrap; an element starts a new line when it does not fit on the
\* current one; the first element of a line always stays on it.  width gives
\* the width of every element of the order, row the inline size of the row
RECURSIVE LinesOf(_, _, _, _, _, _)
LinesOf(order, width, row, line, used, empty) ==
  IF order = <<>> THEN <<>>
  ELSE LET w == width[Head(order)]
           fits == empty \/ used + w <= row
           ln == IF fits THEN line ELSE line + 1
           u == IF fits THEN used + w ELSE w
       IN <<ln>> \o LinesOf(Tail(order), width, row, ln, u, FALSE)

\* the lines of the host's row, as the browser measures it now
Lines(order, line, used, empty) ==
  LinesOf(order, [e \in Range(order) |-> MeasuredWidth(e)], MeasuredContainer,
          line, used, empty)

\* getBoundingClientRect().top of the "more" slot and of every element
Tops(elements, pin, moreFirst) ==
  LET order == VisualOrder(elements, pin, moreFirst)
      lines == Lines(order, 0, 0, TRUE)
  IN [e \in Range(order) |-> lines[IndexOf(order, e)]]

\* ------------------------------------------------------------ operations
Fresh(s) == [s EXCEPT !.events = <<>>, !.passes = 0]

Elements(s) == SelectSeq(items, LAMBDA i : i \notin s.overflow)

MoveItemsToDefaultSlot_Keep(s) == s

MoveItemsToDefaultSlot(s) == [s EXCEPT !.overflow = {}]

ObserveChanges_Skip(s) == s

ObserveChanges(s) == [s EXCEPT !.ro = TRUE, !.mo = TRUE]

UnobserveChanges(s) == [s EXCEPT !.ro = FALSE, !.mo = FALSE]

Reset(s) ==
  LET a == MoveItemsToDefaultSlot(UnobserveChanges(s))
  IN [a EXCEPT !.overflowCount = 0]

UpdateMinimumReached(s, visibleCount) ==
  IF minimumItems # NoMinimum
  THEN [s EXCEPT !.minimumReached = (visibleCount < minimumItems),
                 !.events = Append(@, visibleCount < minimumItems)]
  ELSE s

IsOverflowing_AtOrBelow(top, moreTop) == top >= moreTop

IsOverflowing_Above(top, moreTop) == top < moreTop

IsOverflowing(top, moreTop) == top > moreTop

\* #reflowItems; the height lock (listHeight) is an inline style that nothing
\* below reads, so only its parameter is kept
ReflowItems(s0, listHeight, pin, moreFirst) ==
  LET s1 == MoveItemsToDefaultSlot(UnobserveChanges(s0))
      elements == Elements(s1)
  IN IF elements = <<>>
     THEN [ObserveChanges(s1) EXCEPT !.passes = @ + 1]
     ELSE
       LET top == Tops(elements, pin, moreFirst)
           overflowing == SelectSeq(elements,
                            LAMBDA e : IsOverflowing(top[e], top[More]))
           visible == SelectSeq(elements,
                            LAMBDA e : ~IsOverflowing(top[e], top[More]))
           hasOverflow == overflowing # <<>>
           s2 == [s1 EXCEPT
                    !.flexWrap = TRUE,
                    !.moreOrder = ~hasOverflow,
                    !.overflow = (@ \ Range(elements)) \cup Range(overflowing),
                    !.overflowCount = Len(overflowing),
                    !.moreHidden = ~hasOverflow,
                    !.placeholderWidth =
                        IF hasOverflow THEN MeasuredWidth(overflowing[1]) ELSE @,
                    !.placeholderHidden = ~hasOverflow]
           s3 == IF hasOverflow THEN UpdateMinimumReached(s2, Len(visible)) ELSE s2
       IN [ObserveChanges(s3) EXCEPT !.passes = @ + 1]

\* the 'reflow' event runs every registered listener in turn
RECURSIVE RunListeners(_, _, _, _)
RunListeners(s, n, pin, moreFirst) ==
  IF n = 0 THEN s
  ELSE RunListeners(ReflowItems(s, 0, pin, moreFirst), n - 1, pin, moreFirst)

HandleChange_NoGuard(sched, raf) ==
  [scheduled |-> TRUE, raf |-> raf + 1, coalesced |-> sched]

\* #handleChange: the outcome for #scheduled and the frame queue
HandleChange(sched, raf) ==
  IF sched
  THEN [scheduled |-> TRUE, raf |-> raf, coalesced |-> TRUE]
  ELSE [scheduled |-> TRUE, raf |-> raf + 1, coalesced |-> FALSE]

Did(pin, coalesced, threw) == [pin |-> pin, coalesced |-> coalesced, threw |-> threw]

\* the other components, not yet on the page
LayIdle == [row |-> 0, a |-> <<>>, b |-> <<>>, visibleA |-> 0, visibleB |-> 0,
            measured |-> FALSE]

\* quantityInput.max absent: parseIntOrDefault(..., null)
NoMaximum == -1

QsIdle == [value |-> 1, min |-> 1, max |-> NoMaximum, step |-> 1, cartQuantity |-> 0,
           minusDisabled |-> FALSE, plusDisabled |-> FALSE,
           serverDisabledMinus |-> FALSE, serverDisabledPlus |-> FALSE,
           initialized |-> FALSE, connected |-> FALSE,
           cartVariant |-> FALSE, renderedMinus |-> FALSE, renderedPlus |-> FALSE,
           clamped |-> FALSE]

\* the bubble shows counts below BubbleLimit
BubbleLimit == 100

\* textContent '' of the bubble count, the NaN that parseInt makes of it, and
\* an absent session-storage entry
Blank == -1
NaN == -2
NoEntry == -3

CartIdle == [text |-> 0, stored |-> NoEntry, count |-> 0,
             bubbleHidden |-> TRUE, hasCart |-> FALSE, rendered |-> FALSE]

\* a fieldset without a checked radio; no request applied yet
NoRadio == 0

Fieldsets == {1, 2}

Radios == 1..MaxRadios

Requests == 1..MaxRequests

VpIdle == [connected |-> FALSE, listeners |-> 0,
           checkedIndices |-> <<>>,
           checked |-> [f \in Fieldsets |-> NoRadio],
           cur |-> [f \in Fieldsets |-> [i \in Radios |-> FALSE]],
           prev |-> [f \in Fieldsets |-> [i \in Radios |-> FALSE]],
           selected |-> <<0, NoRadio>>, tracked |-> FALSE,
           pendingRequestUrl |-> "none",
           issued |-> 0, requests |-> [r \in Requests |-> "none"],
           applied |-> 0, stale |-> FALSE]

\* #drag = null
NoDrag == [target |-> -2, dragging |-> FALSE, prevent |-> FALSE,
           complete |-> FALSE, left |-> FALSE]

SsIdle == [n |-> 1, connected |-> FALSE, initialized |-> FALSE, active |-> 0,
           selected |-> {}, tabbable |-> {}, inert |-> {},
           isMobile |-> FALSE, instant |-> FALSE,
           drag |-> NoDrag, listening |-> FALSE, timers |-> 0]

\* #menuDrawerHiddenWidth = null; 0 is as falsy in the observer's test
NoWidth == 0

\* hd.heard is the detail of the last overflowMinimum event the header
\* handled, hd.widened whether the resize observer has shown the menu since
HdIdle == [connected |-> FALSE, window |-> 2, menuHidden |-> FALSE,
           drawerHidden |-> TRUE, menuDrawerHiddenWidth |-> NoWidth,
           resizePending |-> FALSE, heard |-> "none", widened |-> FALSE]

\* ------------------------------------------------------------------ Init
Init ==
  /\ items = [k \in 1..MaxItems |-> k]
  /\ containerW = 0
  /\ structureOk \in BOOLEAN
  /\ attached = FALSE
  /\ disabledAttr = "other"
  /\ minimumItems \in MinimumValues
  /\ initialized = FALSE
  /\ listeners = 0
  /\ initPending = 0
  /\ ioObserving = FALSE
  /\ ioTimers = 0
  /\ scheduled = FALSE
  /\ rafPending = 0
  /\ timeoutPending = 0
  /\ ol = [overflow |-> {}, ro |-> FALSE, mo |-> FALSE,
           overflowCount |-> 0,
           moreHidden |-> TRUE, moreOrder |-> FALSE, flexWrap |-> FALSE,
           placeholderWidth |-> 0, placeholderHidden |-> TRUE,
           minimumReached |-> FALSE, events |-> <<>>, passes |-> 0]
  /\ shownAll = FALSE
  /\ last = Did(NoPin, FALSE, FALSE)
  /\ lay = LayIdle
  /\ vp = VpIdle
  /\ ss = SsIdle
  /\ hd = HdIdle
  /\ qs = QsIdle
  /\ cart = CartIdle

\* --------------------------------------------------------------- actions
\* connectedCallback up to the await; the host is rendered with a row w wide
Attach(w) ==
  /\ ~attached
  /\ listeners + initPending < MaxListeners
  /\ attached' = TRUE
  /\ containerW' = w
  /\ initPending' = initPending + 1
  /\ ol' = Fresh(ol)
  /\ last' = Did(NoPin, FALSE, FALSE)
  /\ UNCHANGED <<items, structureOk, disabledAttr,
                 minimumItems, initialized, listeners, ioObserving, ioTimers,
                 scheduled, rafPending, timeoutPending, shownAll,
                 otherVars>>

Initialize_Unchecked ==
  /\ initPending > 0
  /\ initPending' = initPending - 1
  /\ ol' = Fresh(ol)
  /\ IF TRUE
     THEN /\ initialized' = TRUE
          /\ listeners' = listeners + 1
          /\ ioObserving' = (ioObserving \/ items # <<>>)
          /\ last' = Did(NoPin, FALSE, FALSE)
     ELSE /\ last' = Did(NoPin, FALSE, TRUE)
          /\ UNCHANGED <<initialized, listeners, ioObserving>>
  /\ UNCHANGED <<items, containerW, structureOk, attached,
                 disabledAttr, minimumItems, ioTimers, scheduled, rafPending,
                 timeoutPending, shownAll,
                 otherVars>>

\* the continuation of connectedCallback: #initialize
Initialize ==
  /\ initPending > 0
  /\ initPending' = initPending - 1
  /\ ol' = Fresh(ol)
  /\ IF structureOk
     THEN /\ initialized' = TRUE
          /\ listeners' = listeners + 1
          /\ ioObserving' = (ioObserving \/ items # <<>>)
          /\ last' = Did(NoPin, FALSE, FALSE)
     ELSE /\ last' = Did(NoPin, FALSE, TRUE)
          /\ UNCHANGED <<initialized, listeners, ioObserving>>
  /\ UNCHANGED <<items, containerW, structureOk, attached,
                 disabledAttr, minimumItems, ioTimers, scheduled, rafPending,
                 timeoutPending, shownAll,
                 otherVars>>

\* disconnectedCallback
Detach ==
  /\ attached
  /\ attached' = FALSE
  /\ containerW' = 0
  /\ ol' = [Fresh(ol) EXCEPT !.ro = FALSE, !.mo = FALSE]
  /\ ioObserving' = FALSE
  /\ last' = Did(NoPin, FALSE, FALSE)
  /\ UNCHANGED <<items, structureOk, disabledAttr,
                 minimumItems, initialized, listeners, initPending, ioTimers,
                 scheduled, rafPending, timeoutPending, shownAll,
                 otherVars>>

\* #handleIntersection with an intersecting first entry
Intersect ==
  /\ ioObserving
  /\ attached
  /\ ioObserving' = FALSE
  /\ ioTimers' = ioTimers + 1
  /\ ol' = Fresh(ol)
  /\ last' = Did(NoPin, FALSE, FALSE)
  /\ UNCHANGED <<items, containerW, structureOk, attached,
                 disabledAttr, minimumItems, initialized, listeners,
                 initPending, scheduled, rafPending, timeoutPending, shownAll,
                 otherVars>>

\* the zero-delay callback queued by #handleIntersection
IoTimeout ==
  /\ ioTimers > 0
  /\ ioTimers' = ioTimers - 1
  /\ ol' = ReflowItems(Fresh(ol), 1, NoPin, TRUE)
  /\ last' = Did(NoPin, FALSE, FALSE)
  /\ UNCHANGED <<items, containerW, structureOk, attached,
                 disabledAttr, minimumItems, initialized, listeners,
                 initPending, ioObserving, scheduled, rafPending,
                 timeoutPending, shownAll,
                 otherVars>>

\* delivery of a resize or child-list record to #handleChange, when the
\* observer concerned is attached
Notify(observing) ==
  IF observing
  THEN LET h == HandleChange(scheduled, rafPending)
       IN /\ scheduled' = h.scheduled
          /\ rafPending' = h.raf
          /\ last' = Did(NoPin, h.coalesced, FALSE)
  ELSE /\ UNCHANGED <<scheduled, rafPending>>
       /\ last' = Did(NoPin, FALSE, FALSE)

\* the row of a rendered host changes width; the ResizeNotifier reports it
\* when it observes the host
Resize(w) ==
  /\ attached
  /\ w # containerW
  /\ containerW' = w
  /\ ol' = Fresh(ol)
  /\ Notify(ol.ro)
  /\ UNCHANGED <<items, structureOk, attached, disabledAttr,
                 minimumItems, initialized, listeners, initPending,
                 ioObserving, ioTimers, timeoutPending, shownAll,
                 otherVars>>

\* a child is inserted (unslotted, so it lands in the default slot)
AddItem(i) ==
  /\ i = Len(items) + 1
  /\ items' = Append(items, i)
  /\ ol' = Fresh(ol)
  /\ Notify(ol.mo)
  /\ UNCHANGED <<containerW, structureOk, attached, disabledAttr,
                 minimumItems, initialized, listeners, initPending,
                 ioObserving, ioTimers, timeoutPending, shownAll,
                 otherVars>>

\* a child is removed, from whichever slot it was assigned to
RemoveItem(i) ==
  /\ items # <<>> /\ i = items[Len(items)]
  /\ items' = SelectSeq(items, LAMBDA e : e # i)
  /\ ol' = [Fresh(ol) EXCEPT !.overflow = @ \ {i}]
  /\ Notify(ol.mo)
  /\ UNCHANGED <<containerW, structureOk, attached, disabledAttr,
                 minimumItems, initialized, listeners, initPending,
                 ioObserving, ioTimers, timeoutPending, shownAll,
                 otherVars>>

\* the frame callback of #handleChange: queues the zero-delay task
AnimationFrame ==
  /\ rafPending > 0
  /\ rafPending' = rafPending - 1
  /\ timeoutPending' = timeoutPending + 1
  /\ ol' = Fresh(ol)
  /\ last' = Did(NoPin, FALSE, FALSE)
  /\ UNCHANGED <<items, containerW, structureOk, attached,
                 disabledAttr, minimumItems, initialized, listeners,
                 initPending, ioObserving, ioTimers, scheduled, shownAll,
                 otherVars>>

ChangeTimeout_KeepsFlag ==
  /\ timeoutPending > 0
  /\ timeoutPending' = timeoutPending - 1
  /\ ol' = ReflowItems(Fresh(ol), 0, NoPin, TRUE)
  /\ scheduled' = scheduled
  /\ last' = Did(NoPin, FALSE, FALSE)
  /\ UNCHANGED <<items, containerW, structureOk, attached,
                 disabledAttr, minimumItems, initialized, listeners,
                 initPending, ioObserving, ioTimers, rafPending, shownAll,
                 otherVars>>

\* the zero-delay task of #handleChange: reflow, then clear #scheduled
ChangeTimeout ==
  /\ timeoutPending > 0
  /\ timeoutPending' = timeoutPending - 1
  /\ ol' = ReflowItems(Fresh(ol), 0, NoPin, TRUE)
  /\ scheduled' = FALSE
  /\ last' = Did(NoPin, FALSE, FALSE)
  /\ UNCHANGED <<items, containerW, structureOk, attached,
                 disabledAttr, minimumItems, initialized, listeners,
                 initPending, ioObserving, ioTimers, rafPending, shownAll,
                 otherVars>>

\* the disabled attribute is written;
\* attributeChangedCallback runs, and throws while #refs is unset
SetDisabled(v) ==
  /\ disabledAttr' = v
  /\ shownAll' = (shownAll /\ v = "true")
  /\ IF ~initialized
     THEN /\ ol' = Fresh(ol)
          /\ last' = Did(NoPin, FALSE, TRUE)
     ELSE /\ ol' = IF v = "true" THEN Reset(Fresh(ol))
                   ELSE ReflowItems(Fresh(ol), 0, NoPin, TRUE)
          /\ last' = Did(NoPin, FALSE, FALSE)
  /\ UNCHANGED <<items, containerW, structureOk, attached,
                 minimumItems, initialized, listeners, initPending,
                 ioObserving, ioTimers, scheduled, rafPending, timeoutPending,
                 otherVars>>

\* showAll(): throws on the placeholder lookup while #refs is unset
ShowAll ==
  /\ IF ~initialized
     THEN /\ ol' = Fresh(ol)
          /\ last' = Did(NoPin, FALSE, TRUE)
          /\ UNCHANGED <<disabledAttr, shownAll>>
     ELSE /\ ol' = Reset([Fresh(ol) EXCEPT !.placeholderWidth = 0])
          /\ disabledAttr' = "true"
          /\ shownAll' = TRUE
          /\ last' = Did(NoPin, FALSE, FALSE)
  /\ UNCHANGED <<items, containerW, structureOk, attached,
                 minimumItems, initialized, listeners, initPending,
                 ioObserving, ioTimers, scheduled, rafPending, timeoutPending,
                 otherVars>>

\* a 'reflow' event is dispatched on the host, pin being
\* event.detail.lastVisibleElement; the shadow template, which fixes the
\* tree order of the "more" slot and the items, is not part of the sources,
\* so either order is allowed
ReflowRequest(pin, moreFirst) ==
  /\ listeners > 0
  /\ pin = NoPin \/ pin \in Range(items)
  /\ ol' = RunListeners(Fresh(ol), listeners, pin, moreFirst)
  /\ last' = Did(pin, FALSE, FALSE)
  /\ UNCHANGED <<items, containerW, structureOk, attached,
                 disabledAttr, minimumItems, initialized, listeners,
                 initPending, ioObserving, ioTimers, scheduled, rafPending,
                 timeoutPending, shownAll,
                 otherVars>>

Next ==
  \/ \E w \in Widths : Attach(w)
  \/ Initialize
  \/ Detach
  \/ Intersect
  \/ IoTimeout
  \/ \E w \in Widths : Resize(w)
  \/ \E i \in ItemIds : AddItem(i)
  \/ \E i \in ItemIds : RemoveItem(i)
  \/ AnimationFrame
  \/ ChangeTimeout
  \/ \E v \in DisabledValues : SetDisabled(v)
  \/ ShowAll
  \/ \E pin \in {NoPin} \cup ItemIds, moreFirst \in BOOLEAN : ReflowRequest(pin, moreFirst)

Spec == Init /\ [][Next]_vars

\* the OverflowList element as constructed, for the specifications of the
\* other components
ListIdle ==
  /\ items = [k \in 1..MaxItems |-> k]
  /\ containerW = 0
  /\ structureOk = TRUE
  /\ attached = FALSE
  /\ disabledAttr = "other"
  /\ minimumItems = NoMinimum
  /\ initialized = FALSE
  /\ listeners = 0
  /\ initPending = 0
  /\ ioObserving = FALSE
  /\ ioTimers = 0
  /\ scheduled = FALSE
  /\ rafPending = 0
  /\ timeoutPending = 0
  /\ ol = [overflow |-> {}, ro |-> FALSE, mo |-> FALSE,
           overflowCount |-> 0,
           moreHidden |-> TRUE, moreOrder |-> FALSE, flexWrap |-> FALSE,
           placeholderWidth |-> 0, placeholderHidden |-> TRUE,
           minimumReached |-> FALSE, events |-> <<>>, passes |-> 0]
  /\ shownAll = FALSE
  /\ last = Did(NoPin, FALSE, FALSE)

\* -------------------------------------------------------------- LiveSpec
\* The change-notification pipeline of the list under the scheduling of the
\* browser, which runs every queued animation-frame callback and every
\* queued timer task.  The 'reflow' request is left out: it touches neither
\* #scheduled nor the callback queues, and the passes it runs are those the
\* other handlers run.
LiveInit ==
  /\ ListIdle
  /\ lay = LayIdle
  /\ vp = VpIdle
  /\ ss = SsIdle
  /\ hd = HdIdle
  /\ qs = QsIdle
  /\ cart = CartIdle

LiveNext ==
  \/ \E w \in Widths : Attach(w)
  \/ Initialize
  \/ Detach
  \/ Intersect
  \/ IoTimeout
  \/ \E w \in Widths : Resize(w)
  \/ \E i \in ItemIds : AddItem(i)
  \/ \E i \in ItemIds : RemoveItem(i)
  \/ AnimationFrame
  \/ ChangeTimeout
  \/ \E v \in DisabledValues : SetDisabled(v)
  \/ ShowAll

LiveSpec ==
  LiveInit /\ [][LiveNext]_vars
    /\ WF_vars(AnimationFrame) /\ WF_vars(ChangeTimeout)

\* ---------------------------------------------------------- QuantitySpec
\* QuantitySelectorComponent (src/unnamed/part_005).  The attributes of the
\* input hold integer strings; they are kept as the integers parseInt and
\* parseIntOrDefault read from them, an absent max as NoMaximum (null).
Quantities == 0..MaxQuantity
Minimums == 1..MaxStep
Steps == 1..MaxStep
Maximums == {NoMaximum} \cup (1..MaxQuantity)

Min2(x, y) == IF x <= y THEN x ELSE y

Max2(x, y) == IF x >= y THEN x ELSE y

\* a quantity rule as the platform renders it into the input: min <= max
ValidRule(min, max) == max = NoMaximum \/ min <= max

\* getEffectiveMax: what is left to add, never below min; null without a max.
\* The cart element overrides it with the absolute max.
GetEffectiveMax(q) ==
  IF q.max = NoMaximum THEN NoMaximum
  ELSE IF q.cartVariant THEN q.max
  ELSE Max2(q.max - q.cartQuantity, q.min)

\* Math.min(effectiveMax ?? Infinity, x)
CapAtEffectiveMax(q, x) ==
  IF GetEffectiveMax(q) = NoMaximum THEN x ELSE Min2(GetEffectiveMax(q), x)

\* updateButtonStates: only buttons that were not server-disabled are
\* managed; the cart element's override manages both buttons always
UpdateButtonStates(q) ==
  [q EXCEPT
     !.minusDisabled = IF q.serverDisabledMinus /\ ~q.cartVariant THEN @
                       ELSE q.value <= q.min,
     !.plusDisabled = IF q.serverDisabledPlus /\ ~q.cartVariant THEN @
                      ELSE GetEffectiveMax(q) # NoMaximum
                           /\ q.value >= GetEffectiveMax(q)]

\* Math.min(effectiveMax ?? Infinity, Math.max(min, x)), the clamp of
\* updateQuantity, setQuantity and updateCartQuantity
ClampUp_NoCap(q, x) == Max2(q.min, x)

ClampUp(q, x) == CapAtEffectiveMax(q, Max2(q.min, x))

\* the snap of updateConstraints: down to the closest valid increment
SnapDown(value, min, step) ==
  IF (value - min) % step # 0
  THEN min + ((value - min) \div step) * step
  ELSE value

\* the server-rendered selector, before connectedCallback
QuantityInit ==
  /\ ListIdle
  /\ lay = LayIdle
  /\ vp = VpIdle
  /\ ss = SsIdle
  /\ hd = HdIdle
  /\ cart = CartIdle
  /\ \E value \in Quantities, min \in Minimums, max \in Maximums,
        step \in Steps, cartQuantity \in Quantities,
        minusDisabled \in BOOLEAN, plusDisabled \in BOOLEAN,
        cartVariant \in BOOLEAN :
       /\ ValidRule(min, max)
       /\ qs = [value |-> value, min |-> min, max |-> max, step |-> step,
                cartQuantity |-> cartQuantity,
                minusDisabled |-> minusDisabled, plusDisabled |-> plusDisabled,
                serverDisabledMinus |-> FALSE, serverDisabledPlus |-> FALSE,
                initialized |-> FALSE, connected |-> FALSE,
                cartVariant |-> cartVariant,
                renderedMinus |-> minusDisabled, renderedPlus |-> plusDisabled,
                clamped |-> FALSE]

\* connectedCallback
QsConnect ==
  /\ ~qs.connected
  /\ qs' = UpdateButtonStates(
             [qs EXCEPT
                !.serverDisabledMinus = @ \/ qs.minusDisabled,
                !.serverDisabledPlus = @ \/ qs.plusDisabled,
                !.initialized = TRUE,
                !.connected = TRUE])
  /\ UNCHANGED <<listVars, lay, cart, vp, ss, hd>>

\* disconnectedCallback
QsDisconnect ==
  /\ qs.connected
  /\ qs' = [qs EXCEPT !.connected = FALSE]
  /\ UNCHANGED <<listVars, lay, cart, vp, ss, hd>>

\* updateConstraints(min, max, step)
UpdateConstraints(min, max, step) ==
  /\ qs.initialized
  /\ ValidRule(min, max)
  /\ LET q == [qs EXCEPT !.min = min, !.max = max, !.step = step]
         snapped == SnapDown(qs.value, min, step)
         newValue == Max2(min, CapAtEffectiveMax(q, snapped))
     IN qs' = UpdateButtonStates([q EXCEPT !.value = newValue,
                                           !.clamped = newValue # snapped])
  /\ UNCHANGED <<listVars, lay, cart, vp, ss, hd>>

\* setCartQuantity(cartQty), with the updateCartQuantity it calls
SetCartQuantity(cartQty) ==
  /\ qs.initialized
  /\ LET q == [qs EXCEPT !.cartQuantity = cartQty]
         clampedValue == ClampUp(q, q.value)
     IN qs' = UpdateButtonStates([q EXCEPT !.value = clampedValue,
                                           !.clamped = clampedValue # q.value])
  /\ UNCHANGED <<listVars, lay, cart, vp, ss, hd>>

\* updateQuantity(stepMultiplier): increaseQuantity is updateQuantity(1),
\* decreaseQuantity updateQuantity(-1).  Without a max the value is kept
\* within the modelled quantities.
UpdateQuantity(stepMultiplier) ==
  /\ qs.initialized
  /\ qs.value + qs.step * stepMultiplier <= MaxQuantity
  /\ LET target == qs.value + qs.step * stepMultiplier
         newValue == ClampUp(qs, target)
     IN qs' = UpdateButtonStates([qs EXCEPT !.value = newValue,
                                            !.clamped = newValue # target])
  /\ UNCHANGED <<listVars, lay, cart, vp, ss, hd>>

IncreaseQuantity == UpdateQuantity(1)

DecreaseQuantity == UpdateQuantity(-1)

\* setQuantity(event): typed is parseInt(event.target.value) || 0.  A value
\* off the increment is written and reported, and the handler returns before
\* updateButtonStates.
SetQuantity(typed) ==
  /\ qs.initialized
  /\ LET quantity == ClampUp(qs, typed)
         q == [qs EXCEPT !.value = quantity, !.clamped = quantity # typed]
     IN qs' = IF (quantity - qs.min) % qs.step # 0 THEN q
              ELSE UpdateButtonStates(q)
  /\ UNCHANGED <<listVars, lay, cart, vp, ss, hd>>

QuantityNext ==
  \/ QsConnect
  \/ QsDisconnect
  \/ \E min \in Minimums, max \in Maximums, step \in Steps :
       UpdateConstraints(min, max, step)
  \/ \E cartQty \in Quantities : SetCartQuantity(cartQty)
  \/ IncreaseQuantity
  \/ DecreaseQuantity
  \/ \E typed \in Quantities : SetQuantity(typed)

QuantitySpec == QuantityInit /\ [][QuantityNext]_vars

\* -------------------------------------------------------------- CartSpec
\* CartIcon (src/assets/cart-icon.js).  cart.count is the number of items the
\* updates received so far add up to; the element itself keeps only the text.
ItemCounts == 0..MaxItemCount

\* get currentCartCount: parseInt of the bubble text
CurrentCartCount(c) == IF c.text = Blank THEN NaN ELSE c.text

\* number + number, NaN absorbing
Plus(x, y) == IF x = NaN \/ y = NaN THEN NaN ELSE x + y

\* set currentCartCount: the text is blank from BubbleLimit on (NaN < 100 is false)
SetCurrentCartCount(c, value) ==
  [c EXCEPT !.text = IF value # NaN /\ value < BubbleLimit THEN value ELSE Blank]

\* the server-rendered icon with its count
CartInit ==
  /\ ListIdle
  /\ lay = LayIdle
  /\ vp = VpIdle
  /\ ss = SsIdle
  /\ hd = HdIdle
  /\ qs = QsIdle
  /\ \E n \in 0..(BubbleLimit - 1) :
       cart = [CartIdle EXCEPT !.text = n, !.count = n,
                               !.bubbleHidden = (n = 0), !.hasCart = (n > 0)]

\* onCartUpdate -> renderCartBubble(itemCount, comingFromProductForm)
RenderCartBubble(itemCount, comingFromProductForm) ==
  /\ cart.count + itemCount <= BubbleLimit + MaxItemCount
  /\ LET value == IF comingFromProductForm
                  THEN Plus(CurrentCartCount(cart), itemCount)
                  ELSE itemCount
         c == SetCurrentCartCount(cart, value)
     IN cart' = [c EXCEPT
                   !.bubbleHidden = (itemCount = 0),
                   !.hasCart = (itemCount > 0),
                   !.stored = CurrentCartCount(c),
                   !.count = IF comingFromProductForm THEN @ + itemCount
                             ELSE itemCount,
                   !.rendered = TRUE]
  /\ UNCHANGED <<listVars, lay, qs, vp, ss, hd>>

CartNext ==
  \E itemCount \in ItemCounts, comingFromProductForm \in BOOLEAN :
    RenderCartBubble(itemCount, comingFromProductForm)

CartSpec == CartInit /\ [][CartNext]_vars

\* ------------------------------------------------------------ LayoutSpec
\* The partition of #reflowItems (lines 296-311) as a function of the item
\* widths and the row width, without a pinned item.
LayoutWidths == 1..MaxWidth
LayoutRows == 1..(MaxWidth + MoreWidth)

\* the layouts of n items, as the sequence of their widths
Layouts(n) == [1..n -> LayoutWidths]

VisibleCountOf_Overflowing(width, row) ==
  LET n == Len(width)
      order == <<More>> \o [k \in 1..n |-> k]
      w == [e \in 0..n |-> IF e = More THEN MoreWidth ELSE width[e]]
      top == LinesOf(order, w, row, 0, 0, TRUE)
  IN Cardinality({k \in 1..n : IsOverflowing(top[k + 1], top[1])})

\* visibleElements.length for items of the given widths in a row of the
\* given inline size
VisibleCountOf(width, row) ==
  LET n == Len(width)
      order == <<More>> \o [k \in 1..n |-> k]
      w == [e \in 0..n |-> IF e = More THEN MoreWidth ELSE width[e]]
      top == LinesOf(order, w, row, 0, 0, TRUE)
  IN Cardinality({k \in 1..n : ~IsOverflowing(top[k + 1], top[1])})

\* two layouts of the same number of items in the same row, the second with
\* every item at least as wide as in the first
LayoutInit ==
  /\ ListIdle
  /\ vp = VpIdle
  /\ ss = SsIdle
  /\ hd = HdIdle
  /\ qs = QsIdle
  /\ cart = CartIdle
  /\ \E n \in 0..MaxItems, row \in LayoutRows :
       \E a \in Layouts(n), b \in Layouts(n) :
         /\ \A k \in 1..n : a[k] <= b[k]
         /\ lay = [row |-> row, a |-> a, b |-> b,
                   visibleA |-> 0, visibleB |-> 0, measured |-> FALSE]

\* the partition loop of a reflow pass, run on either layout
MeasureLayouts ==
  /\ ~lay.measured
  /\ lay' = [lay EXCEPT !.visibleA = VisibleCountOf(lay.a, lay.row),
                        !.visibleB = VisibleCountOf(lay.b, lay.row),
                        !.measured = TRUE]
  /\ UNCHANGED <<listVars, qs, cart, vp, ss, hd>>

LayoutNext == MeasureLayouts

LayoutSpec == LayoutInit /\ [][LayoutNext]_vars

\* ----------------------------------------------------------- VariantSpec
\* VariantPicker (src/assets/variant-picker.js) with two fieldsets of radios.
\* vp.cur and vp.prev are dataset.currentChecked and dataset.previousChecked of
\* the radios, vp.checked the radio of a fieldset whose checked property is
\* set, vp.checkedIndices the private #checkedIndices.  vp.requests holds the
\* fetches in the order they were issued; the controller of the last one is
\* #abortController.  vp.selected and vp.tracked remember the last call of
\* updateSelectedOption, vp.applied the request whose response was last
\* applied, vp.stale whether a response was applied that was not the newest.

\* the fieldsets rendered by the server: at most one radio per fieldset has
\* data-current-checked, and it is the checked one
VariantInit ==
  /\ ListIdle
  /\ lay = LayIdle
  /\ qs = QsIdle
  /\ cart = CartIdle
  /\ ss = SsIdle
  /\ hd = HdIdle
  /\ \E initial \in [Fieldsets -> {NoRadio} \cup Radios] :
       vp = [VpIdle EXCEPT
               !.checked = initial,
               !.cur = [f \in Fieldsets |-> [i \in Radios |-> initial[f] = i]]]

\* radios.findIndex((radio) => radio.dataset.currentChecked === 'true')
InitialCheckedIndex(v, f) ==
  IF \E i \in Radios : v.cur[f][i]
  THEN CHOOSE i \in Radios : v.cur[f][i] /\ \A j \in 1..(i - 1) : ~v.cur[f][j]
  ELSE NoRadio

\* the histories connectedCallback pushes: one per fieldset that has a
\* checked radio, in fieldset order
RECURSIVE PushedIndices(_, _)
PushedIndices(v, f) ==
  IF f \notin Fieldsets THEN <<>>
  ELSE (IF InitialCheckedIndex(v, f) = NoRadio THEN <<>>
        ELSE << <<InitialCheckedIndex(v, f)>> >>) \o PushedIndices(v, f + 1)

\* the first entries of a list, as many as there are fieldsets: entries
\* further back are never looked up
Firsts(list) ==
  SubSeq(list, 1, IF Len(list) <= Cardinality(Fieldsets) THEN Len(list)
                  ELSE Cardinality(Fieldsets))

\* connectedCallback: pushes to #radios and #checkedIndices again and adds one
\* more 'change' listener on every attach
VpConnect ==
  /\ ~vp.connected
  /\ vp.listeners < MaxListeners
  /\ vp' = [vp EXCEPT
              !.connected = TRUE,
              !.listeners = @ + 1,
              !.checkedIndices = Firsts(@ \o PushedIndices(vp, 1))]
  /\ UNCHANGED <<listVars, lay, qs, cart, ss, hd>>

\* disconnectedCallback: the 'change' listener stays
VpDisconnect ==
  /\ vp.connected
  /\ vp' = [vp EXCEPT !.connected = FALSE]
  /\ UNCHANGED <<listVars, lay, qs, cart, ss, hd>>

\* checkedIndices.unshift(inputIndex); length = Math.min(length, 2)
Unshift2(h, i) == <<i, h[1]>>

\* updateSelectedOption(target) for the radio i of fieldset f
UpdateSelectedOption(v, f, i) ==
  IF f > Len(v.checkedIndices)
  THEN [v EXCEPT !.checked[f] = i, !.selected = <<f, i>>, !.tracked = FALSE]
  ELSE
    LET h == v.checkedIndices[f]
        cleared == [j \in Radios |->
                      IF \E k \in 1..Len(h) : h[k] = j THEN FALSE
                      ELSE v.prev[f][j]]
        newH == Unshift2(h, i)
        cur1 == [v.cur[f] EXCEPT ![newH[1]] = TRUE]
    IN [v EXCEPT
          !.checkedIndices[f] = newH,
          !.prev[f] = [cleared EXCEPT ![newH[2]] = TRUE],
          !.cur[f] = [cur1 EXCEPT ![newH[2]] = FALSE],
          !.checked[f] = i,
          !.selected = <<f, i>>,
          !.tracked = TRUE]

\* buildRequestUrl: the product URL of the request is the option's connected
\* product, else the URL of the request still pending, else the picker's own
BuildRequestUrl(v, connectedProduct) ==
  [v EXCEPT !.pendingRequestUrl =
     IF connectedProduct THEN "connected"
     ELSE IF v.pendingRequestUrl # "none" THEN v.pendingRequestUrl
     ELSE "product"]

\* this.#abortController?.abort(): the fetch or the body read of the request
\* it belongs to rejects with AbortError
Abort_Nothing(v) == v

Abort(v) ==
  IF v.issued > 0 /\ v.requests[v.issued] \in {"fetching", "reading"}
  THEN [v EXCEPT !.requests[v.issued] = "aborted"]
  ELSE v

\* fetchUpdatedSection up to the call of fetch
FetchUpdatedSection(v) ==
  [Abort(v) EXCEPT !.issued = v.issued + 1,
                   !.requests[v.issued + 1] = "fetching"]

\* one run of variantChanged for a 'change' event of radio i in fieldset f
VariantChangedOnce(v, f, i, connectedProduct) ==
  FetchUpdatedSection(BuildRequestUrl(UpdateSelectedOption(v, f, i),
                                      connectedProduct))

\* the listeners added so far run one after the other
RECURSIVE RunChangeListeners(_, _, _, _, _)
RunChangeListeners(v, n, f, i, connectedProduct) ==
  IF n = 0 THEN v
  ELSE RunChangeListeners(VariantChangedOnce(v, f, i, connectedProduct),
                          n - 1, f, i, connectedProduct)

\* a 'change' event: the user checks a radio that was not checked
VariantChanged(f, i, connectedProduct) ==
  /\ vp.connected
  /\ vp.checked[f] # i
  /\ vp.issued + vp.listeners <= MaxRequests
  /\ vp' = RunChangeListeners(vp, vp.listeners, f, i, connectedProduct)
  /\ UNCHANGED <<listVars, lay, qs, cart, ss, hd>>

\* fetch resolves: the response headers are there, response.text() starts
ResponseReceived(r) ==
  /\ vp.requests[r] = "fetching"
  /\ vp' = [vp EXCEPT !.requests[r] = "reading"]
  /\ UNCHANGED <<listVars, lay, qs, cart, ss, hd>>

\* response.text() resolves and the callback runs: with the variant JSON in
\* the response the DOM is morphed (and the variant-update event dispatched),
\* without it the callback returns after resetting #pendingRequestUrl
ResponseText(r, hasJson) ==
  /\ vp.requests[r] = "reading"
  /\ vp' = [vp EXCEPT
              !.requests[r] = "done",
              !.pendingRequestUrl = "none",
              !.applied = IF hasJson THEN r ELSE @,
              !.stale = @ \/ (hasJson /\ r # vp.issued)]
  /\ UNCHANGED <<listVars, lay, qs, cart, ss, hd>>

\* the fetch or the body read fails: console.error
RequestFails(r) ==
  /\ vp.requests[r] \in {"fetching", "reading"}
  /\ vp' = [vp EXCEPT !.requests[r] = "failed"]
  /\ UNCHANGED <<listVars, lay, qs, cart, ss, hd>>

VariantNext ==
  \/ VpConnect
  \/ VpDisconnect
  \/ \E f \in Fieldsets, i \in Radios, connectedProduct \in BOOLEAN :
       VariantChanged(f, i, connectedProduct)
  \/ \E r \in Requests : ResponseReceived(r)
  \/ \E r \in Requests, hasJson \in BOOLEAN : ResponseText(r, hasJson)
  \/ \E r \in Requests : RequestFails(r)

VariantSpec == VariantInit /\ [][VariantNext]_vars

\* --------------------------------------------------------- SlideshowSpec
\* LayeredSlideshowComponent (src/assets/layered-slideshow.js) with ss.n tabs
\* and as many panels, numbered from 0.  ss.selected are the tabs with
\* aria-selected = 'true', ss.tabbable those with tabindex 0, ss.inert the
\* inert panels, ss.instant the data-instant-transitions attribute.  ss.drag is
\* #drag with its progress kept as "at least DRAG_COMPLETE_THRESHOLD";
\* ss.listening says that the document listeners of a drag are registered,
\* ss.timers counts the pending timeouts that reset #drag.
TabsOf(s) == 0..(s.n - 1)

\* the server-rendered slideshow
SlideshowInit ==
  /\ ListIdle
  /\ lay = LayIdle
  /\ qs = QsIdle
  /\ cart = CartIdle
  /\ vp = VpIdle
  /\ hd = HdIdle
  /\ \E n \in 1..MaxTabs, isMobile \in BOOLEAN :
       \E selected \in SUBSET (0..(n - 1)), inert \in SUBSET (0..(n - 1)) :
         ss = [SsIdle EXCEPT !.n = n, !.selected = selected,
                             !.tabbable = selected, !.inert = inert,
                             !.isMobile = isMobile]

\* #updateActiveTab
UpdateActiveTab(s) ==
  [s EXCEPT !.selected = {s.active},
            !.tabbable = {s.active},
            !.inert = TabsOf(s) \ {s.active}]

\* #activate(index, instant)
Activate_Unchecked(s, index, instant) ==
  UpdateActiveTab([s EXCEPT !.active = index, !.instant = @ \/ instant])

Activate(s, index, instant) ==
  IF index = s.active \/ index < 0 \/ index >= s.n THEN s
  ELSE UpdateActiveTab([s EXCEPT !.active = index, !.instant = @ \/ instant])

\* Math.max(0, tabs.findIndex((t) => t.getAttribute('aria-selected') === 'true'))
FirstSelected(s) ==
  IF s.selected = {} THEN 0
  ELSE CHOOSE t \in s.selected : \A u \in s.selected : t <= u

\* connectedCallback
SsConnect(isMobile) ==
  /\ ~ss.connected
  /\ ss' = UpdateActiveTab([ss EXCEPT !.connected = TRUE,
                                       !.initialized = TRUE,
                                       !.active = FirstSelected(ss),
                                       !.isMobile = isMobile])
  /\ UNCHANGED <<listVars, lay, qs, cart, vp, hd>>

\* disconnectedCallback: the listeners of #setupEventListeners are aborted
SsDisconnect ==
  /\ ss.connected
  /\ ss' = [ss EXCEPT !.connected = FALSE]
  /\ UNCHANGED <<listVars, lay, qs, cart, vp, hd>>

\* select(index, { instant })
Select(index, instant) ==
  /\ ss.initialized
  /\ ss' = Activate(ss, index, instant)
  /\ UNCHANGED <<listVars, lay, qs, cart, vp, hd>>

\* the frames after an instant change: data-instant-transitions is removed
InstantFrames ==
  /\ ss.instant
  /\ ss' = [ss EXCEPT !.instant = FALSE]
  /\ UNCHANGED <<listVars, lay, qs, cart, vp, hd>>

\* #preventClickDuringDrag stops the click on a tab after a drag; the listener
\* is registered on the desktop layout only
ClickPrevented(s) == ~s.isMobile /\ s.drag # NoDrag /\ s.drag.prevent

\* #handleTabClick
TabClick(index) ==
  /\ ss.connected
  /\ index \in TabsOf(ss)
  /\ ~ClickPrevented(ss)
  /\ ss' = Activate(ss, index, FALSE)
  /\ UNCHANGED <<listVars, lay, qs, cart, vp, hd>>

\* #handleTabFocus, for a focus that is :focus-visible
TabFocus(index) ==
  /\ ss.connected
  /\ index \in TabsOf(ss)
  /\ ss' = Activate(ss, index, FALSE)
  /\ UNCHANGED <<listVars, lay, qs, cart, vp, hd>>

\* the offset of navMap for a key pressed on tab i
Offset(s, i, key) ==
  CASE key = "previous" -> -1
    [] key = "next" -> 1
    [] key = "Home" -> -i
    [] key = "End" -> s.n - 1 - i

\* #handleKeydown for a navigation key on tab i
Keydown(i, key) ==
  /\ ss.connected
  /\ i \in TabsOf(ss)
  /\ ss' = Activate(ss, (i + Offset(ss, i, key) + ss.n) % ss.n, FALSE)
  /\ UNCHANGED <<listVars, lay, qs, cart, vp, hd>>

\* #handlePanelKeydown: Tab at the end of panel index, Shift+Tab at its start
PanelKeydown(index, shiftKey) ==
  /\ ss.connected
  /\ index \in TabsOf(ss)
  /\ IF shiftKey THEN index > 0 ELSE index < ss.n - 1
  /\ ss' = Activate(ss, IF shiftKey THEN index - 1 ELSE index + 1, FALSE)
  /\ UNCHANGED <<listVars, lay, qs, cart, vp, hd>>

\* #handleMediaQueryChange when the breakpoint is crossed
MediaQueryChange ==
  /\ ss.connected
  /\ ss' = UpdateActiveTab([ss EXCEPT !.isMobile = ~@, !.instant = TRUE])
  /\ UNCHANGED <<listVars, lay, qs, cart, vp, hd>>

\* #startDrag with #initializeDrag: pointerdown on tab i, or beside the tabs
\* (i = -1)
StartDrag(i) ==
  /\ ss.connected
  /\ ~ss.isMobile
  /\ i \in {-1} \cup TabsOf(ss)
  /\ i # ss.active
  /\ LET target == IF i = -1 THEN -1 ELSE IF i > ss.active THEN i + 1 ELSE i
     IN /\ target < ss.n
        /\ ss' = [ss EXCEPT
                    !.drag = [target |-> target, dragging |-> FALSE,
                              prevent |-> FALSE, complete |-> FALSE,
                              left |-> target # -1 /\ target > ss.active],
                    !.listening = TRUE]
  /\ UNCHANGED <<listVars, lay, qs, cart, vp, hd>>

\* #handleDrag: the pointer is to the left of where it went down or not, has
\* moved DRAG_THRESHOLD or not, half of the drag width or not
HandleDrag(toLeft, moved, half) ==
  /\ ss.listening
  /\ ss.drag # NoDrag
  /\ half => moved
  /\ LET d == ss.drag
         starts == ~d.dragging /\ moved
         stuck == starts /\ d.target = -1
                    /\ ~(~toLeft /\ ss.active > 0)
                    /\ ~(toLeft /\ ss.active < ss.n - 1)
         d1 == IF starts /\ d.target = -1 /\ ~stuck
               THEN [d EXCEPT !.target = IF toLeft THEN ss.active + 1
                                         ELSE ss.active - 1,
                              !.left = toLeft]
               ELSE d
         d2 == IF starts /\ ~stuck THEN [d1 EXCEPT !.dragging = TRUE] ELSE d1
     IN ss' = [ss EXCEPT !.drag =
                 IF d2.dragging
                 THEN [d2 EXCEPT !.complete = (d2.left = toLeft) /\ half]
                 ELSE d2]
  /\ UNCHANGED <<listVars, lay, qs, cart, vp, hd>>

\* #endDrag: pointerup or pointercancel
EndDrag ==
  /\ ss.listening
  /\ ss.drag # NoDrag
  /\ ss.drag.dragging => ss.timers < MaxTimers
  /\ ss' = IF ss.drag.dragging
           THEN LET s1 == [ss EXCEPT !.drag.prevent = TRUE,
                                     !.timers = @ + 1,
                                     !.listening = FALSE]
                IN IF ss.drag.complete THEN Activate(s1, ss.drag.target, FALSE)
                   ELSE UpdateActiveTab(s1)
           ELSE [ss EXCEPT !.drag = NoDrag, !.listening = FALSE]
  /\ UNCHANGED <<listVars, lay, qs, cart, vp, hd>>

\* the timeout set by #endDrag
DragTimeout ==
  /\ ss.timers > 0
  /\ ss' = [ss EXCEPT !.timers = @ - 1, !.drag = NoDrag]
  /\ UNCHANGED <<listVars, lay, qs, cart, vp, hd>>

SlideshowNext ==
  \/ \E isMobile \in BOOLEAN : SsConnect(isMobile)
  \/ SsDisconnect
  \/ \E index \in -1..MaxTabs, instant \in BOOLEAN : Select(index, instant)
  \/ InstantFrames
  \/ \E index \in 0..(MaxTabs - 1) : TabClick(index)
  \/ \E index \in 0..(MaxTabs - 1) : TabFocus(index)
  \/ \E i \in 0..(MaxTabs - 1), key \in {"previous", "next", "Home", "End"} :
       Keydown(i, key)
  \/ \E index \in 0..(MaxTabs - 1), shiftKey \in BOOLEAN :
       PanelKeydown(index, shiftKey)
  \/ MediaQueryChange
  \/ \E i \in -1..(MaxTabs - 1) : StartDrag(i)
  \/ \E toLeft \in BOOLEAN, moved \in BOOLEAN, half \in BOOLEAN :
       HandleDrag(toLeft, moved, half)
  \/ EndDrag
  \/ DragTimeout

SlideshowSpec == SlideshowInit /\ [][SlideshowNext]_vars

\* ------------------------------------------------------------ HeaderSpec
\* HeaderComponent (src/unnamed/part_001) around an OverflowList that is its
\* menu.  The list is attached and detached with the header, its row is as
\* wide as the window, and a reflow pass of the list is one step whatever
\* started it; the header handles the overflowMinimum event inside the pass.
\* hd.resizePending says that the header's ResizeObserver has a size change
\* to deliver.
HeaderInit ==
  /\ \E n \in 0..MaxItems : items = [k \in 1..n |-> k]
  /\ containerW = 0
  /\ structureOk = TRUE
  /\ attached = FALSE
  /\ disabledAttr = "other"
  /\ minimumItems \in MinimumValues
  /\ initialized = FALSE
  /\ listeners = 0
  /\ initPending = 0
  /\ ioObserving = FALSE
  /\ ioTimers = 0
  /\ scheduled = FALSE
  /\ rafPending = 0
  /\ timeoutPending = 0
  /\ ol = [overflow |-> {}, ro |-> FALSE, mo |-> FALSE,
           overflowCount |-> 0,
           moreHidden |-> TRUE, moreOrder |-> FALSE, flexWrap |-> FALSE,
           placeholderWidth |-> 0, placeholderHidden |-> TRUE,
           minimumReached |-> FALSE, events |-> <<>>, passes |-> 0]
  /\ shownAll = FALSE
  /\ last = Did(NoPin, FALSE, FALSE)
  /\ lay = LayIdle
  /\ qs = QsIdle
  /\ cart = CartIdle
  /\ vp = VpIdle
  /\ ss = SsIdle
  /\ \E w \in Widths, drawerHidden \in BOOLEAN :
       hd = [HdIdle EXCEPT !.window = w, !.drawerHidden = drawerHidden]

\* #updateMenuVisibility(hideMenu)
UpdateMenuVisibility(h, hideMenu) ==
  IF hideMenu
  THEN [h EXCEPT !.drawerHidden = FALSE,
                 !.menuDrawerHiddenWidth = h.window,
                 !.menuHidden = TRUE]
  ELSE [h EXCEPT !.drawerHidden = TRUE,
                 !.menuDrawerHiddenWidth = NoWidth,
                 !.menuHidden = FALSE]

\* #handleOverflowMinimum, for every event of a pass in turn
RECURSIVE HandleOverflowMinimum(_, _)
HandleOverflowMinimum(h, events) ==
  IF events = <<>> THEN h
  ELSE HandleOverflowMinimum(
         [UpdateMenuVisibility(h, Head(events)) EXCEPT
            !.heard = IF Head(events) THEN "true" ELSE "false",
            !.widened = FALSE],
         Tail(events))

\* the test of the resize observer
WiderThanHidden_Never(h) == FALSE

WiderThanHidden(h) ==
  h.menuDrawerHiddenWidth # NoWidth /\ h.window > h.menuDrawerHiddenWidth

headerFrame == <<items, structureOk, disabledAttr, minimumItems, initialized,
                 listeners, initPending, ioObserving, ioTimers, scheduled,
                 rafPending, timeoutPending, shownAll, last,
                 lay, qs, cart, vp, ss>>

\* connectedCallback of the header, the list in it is attached with it;
\* observing the header delivers its size once
HdConnect ==
  /\ ~hd.connected
  /\ hd' = [hd EXCEPT !.connected = TRUE, !.resizePending = TRUE]
  /\ attached' = TRUE
  /\ containerW' = hd.window
  /\ ol' = Fresh(ol)
  /\ UNCHANGED headerFrame

\* disconnectedCallback of the header: the observer is disconnected and the
\* listener removed
HdDisconnect ==
  /\ hd.connected
  /\ hd' = [hd EXCEPT !.connected = FALSE, !.resizePending = FALSE]
  /\ attached' = FALSE
  /\ containerW' = 0
  /\ ol' = Fresh(ol)
  /\ UNCHANGED headerFrame

\* the window is resized; a connected header, as wide as the window, changes
\* size with it
WindowResize(w) ==
  /\ w # hd.window
  /\ hd' = [hd EXCEPT !.window = w, !.resizePending = hd.connected]
  /\ containerW' = IF hd.connected THEN w ELSE containerW
  /\ ol' = Fresh(ol)
  /\ UNCHANGED <<attached, headerFrame>>

\* the header changes size for another reason, its height for one
HeaderResized ==
  /\ hd.connected
  /\ ~hd.resizePending
  /\ hd' = [hd EXCEPT !.resizePending = TRUE]
  /\ ol' = Fresh(ol)
  /\ UNCHANGED <<attached, containerW, headerFrame>>

\* the callback of #resizeObserver
HeaderResizeObserved ==
  /\ hd.connected
  /\ hd.resizePending
  /\ hd' = IF WiderThanHidden(hd)
           THEN [UpdateMenuVisibility(hd, FALSE) EXCEPT
                   !.resizePending = FALSE, !.widened = TRUE]
           ELSE [hd EXCEPT !.resizePending = FALSE]
  /\ ol' = Fresh(ol)
  /\ UNCHANGED <<attached, containerW, headerFrame>>

\* a reflow pass of the list in the header; the overflowMinimum event of
\* #updateMinimumReached bubbles to the header's listener
MenuReflow ==
  /\ hd.connected
  /\ ol' = ReflowItems(Fresh(ol), 0, NoPin, TRUE)
  /\ hd' = HandleOverflowMinimum(hd, ol'.events)
  /\ UNCHANGED <<attached, containerW, headerFrame>>

HeaderNext ==
  \/ HdConnect
  \/ HdDisconnect
  \/ \E w \in Widths : WindowResize(w)
  \/ HeaderResized
  \/ HeaderResizeObserved
  \/ MenuReflow

\* the browser delivers the size changes of an observed element
HeaderSpec ==
  HeaderInit /\ [][HeaderNext]_vars /\ WF_vars(HeaderResizeObserved)

\* ---------------------------------------------------------------- claims
Visible == Range(items) \ ol.overflow

\* the handler that ran last executed at least one reflow pass
PassDone == ol.passes > 0

\* what a pass publishes about the partition
Outcome(s) == <<s.overflow, s.overflowCount, s.moreHidden>>

RECURSIVE SumWidths(_, _)
SumWidths(seq, k) ==
  IF k = 0 THEN 0 ELSE MeasuredWidth(seq[k]) + SumWidths(seq, k - 1)

\* length of the longest prefix of the items that fits on one line after "more"
FitCount ==
  CHOOSE k \in 0..Len(items) :
    /\ k = 0 \/ MeasuredWidth(More) + SumWidths(items, k) <= MeasuredContainer
    /\ \A j \in (k + 1)..Len(items) :
         MeasuredWidth(More) + SumWidths(items, j) > MeasuredContainer

FirstOverflow ==
  items[CHOOSE k \in 1..Len(items) :
          items[k] \in ol.overflow /\ \A j \in 1..(k - 1) : items[j] \notin ol.overflow]

\* C1: after every completed reflow pass the minimum-reached attribute is set
\* iff minimum-items is set and fewer than minimum-items items are Visible,
\* and it is not set after a pass in which every item fits.  (Stated for
\* passes on a rendered host without a pinned item, whose layout is the plain
\* row; where every item fits and there are fewer than minimum-items of them
\* the two halves of the sentence disagree, and either value is accepted.)
C1_MinimumReachedIff ==
  LET below == minimumItems # NoMinimum /\ Cardinality(Visible) < minimumItems
  IN (PassDone /\ last.pin = NoPin /\ attached) =>
       /\ ol.minimumReached => below
       /\ (ol.overflow # {} /\ below) => ol.minimumReached

\* C2: a reflow pass that follows an earlier pass (which left flex-wrap on the
\* row) emits exactly one overflowMinimum event, carrying the new value, when
\* it flips minimum-reached, and none when the value stays what the earlier
\* pass left.
C2_OneEventPerChange ==
  [][(ol.flexWrap /\ ol'.passes = 1) =>
       ol'.events = (IF ol'.minimumReached # ol.minimumReached
                     THEN <<ol'.minimumReached>> ELSE <<>>)]_vars

\* C3: a reflow pass is idempotent and history-independent: in the state a
\* pass has left, running the pass again on the same items and layout, from
\* any bucket assignment whatever, publishes the same buckets, overflow count
\* and "more" visibility.
C3_ReflowIdempotent ==
  (PassDone /\ initialized) =>
    \E moreFirst \in BOOLEAN :
      \A b \in SUBSET Range(items) :
        Outcome(ReflowItems([ol EXCEPT !.overflow = b], 0, last.pin, moreFirst))
          = Outcome(ol)

\* C3 witness: one 'reflow' event ran two passes in succession and the second
\* left items in the Overflow bucket.
C3_Witness == ol.passes = 2 /\ ol.overflow # {}

\* C4: change notifications are coalesced: at most one deferred reflow is in
\* flight, exactly when #scheduled is set; a notification that arrives while
\* it is set queues nothing and runs nothing; and the window closes with
\* exactly one reflow pass, run by the deferred callback.
C4_Coalesced ==
  /\ [](rafPending + timeoutPending = IF scheduled THEN 1 ELSE 0)
  /\ [][last'.coalesced =>
          /\ scheduled /\ scheduled'
          /\ rafPending' = rafPending /\ timeoutPending' = timeoutPending
          /\ ol'.passes = 0]_vars
  /\ [][(scheduled /\ ~scheduled') =>
          (timeoutPending' = timeoutPending - 1 /\ ol'.passes = 1)]_vars

\* C4 witness: a notification arrived while a reflow was already scheduled.
C4_Witness == last.coalesced /\ scheduled

\* C5: a deferred reflow (the coalesced change callback or the zero-delay
\* callback of the visibility handler) never executes on a detached host.
C5_NoDeferredReflowAfterDetach ==
  [][(~attached /\ (timeoutPending' < timeoutPending \/ ioTimers' < ioTimers))
       => (ol'.passes = 0 /\ ~ol'.ro /\ ~ol'.mo)]_vars

\* C6: after showAll(), and until disabled is changed away from "true", the
\* coalesced change callback runs no reflow pass and all items stay Visible.
C6_ShowAllSuppressesReflow ==
  [][(shownAll /\ timeoutPending' < timeoutPending)
       => (ol'.passes = 0 /\ ol'.overflow = {})]_vars

\* C7: whenever disabled = "true", all items are Visible and the resize and
\* mutation observers are detached.
C7_DisabledAllVisibleDetached ==
  disabledAttr = "true" => (ol.overflow = {} /\ ~ol.ro /\ ~ol.mo)

\* a prefix of the item sequence is Visible and the remaining suffix Overflow
PrefixSplit(k) ==
  /\ Visible = {items[j] : j \in 1..k}
  /\ ol.overflow = {items[j] : j \in (k + 1)..Len(items)}

C9_CountMatchesBucket ==
  /\ [](PassDone => ol.overflowCount = Cardinality(ol.overflow))
  /\ [][(initialized /\ (SetDisabled("true") \/ ShowAll))
          => ol'.overflowCount = Cardinality(ol'.overflow)]_vars

\* C10: after every reflow pass the placeholder width is the measured width
\* of the first Overflow item, and 0 when nothing overflows.  (Stated for
\* passes on a rendered host without a pinned item.)
C10_PlaceholderWidth ==
  (PassDone /\ last.pin = NoPin /\ attached) =>
    ol.placeholderWidth =
      (IF ol.overflow = {} THEN 0 ELSE MeasuredWidth(FirstOverflow))

\* C11: after every completed reflow pass the "more" indicator is shown iff
\* the Overflow bucket is non-empty, also when the pass ran on a list whose
\* last items had been removed.
C11_MoreShownIffOverflow ==
  PassDone => (~ol.moreHidden <=> ol.overflow # {})

\* C12: changing disabled from "true" to another value runs one reflow pass
\* within the attribute callback; after it the buckets are those of the
\* current layout and the resize and mutation observers are attached.
C12_EnableReflowsAtOnce ==
  [][(disabledAttr = "true" /\ disabledAttr' # "true") =>
       (ol'.passes = 1 /\ ol'.ro /\ ol'.mo /\ PrefixSplit(FitCount)')]_vars

\* C13: when the internal structure is absent, #initialize raises an error
\* and leaves no 'reflow' listener registered and no observer observing.
C13_FailFast ==
  [][(~structureOk /\ initPending' < initPending) =>
       /\ last'.threw /\ ~initialized'
       /\ listeners' = 0
       /\ ~ioObserving' /\ ~ol'.ro /\ ~ol'.mo]_vars

\* C13 witness: the host is attached, its initialization has run on a
\* structure that lacks a part, and it threw.
C13_Witness ==
  ~structureOk /\ attached /\ initPending = 0 /\ last.threw /\ listeners = 0

\* C14: no reflow pass runs before initialization has completed, and a change
\* of the disabled attribute that arrives before it neither measures layout
\* nor raises an error.
C14_NothingBeforeInitialized ==
  /\ [](~initialized => ol.passes = 0)
  /\ [][(~initialized /\ \E v \in DisabledValues : SetDisabled(v))
          => (ol'.passes = 0 /\ ~last'.threw)]_vars

\* C16: disconnectedCallback discards the list state: after it every item is
\* Visible and the resize, mutation and intersection observers are
\* disconnected.
C16_DetachDiscards ==
  [][(attached /\ ~attached') =>
       (ol'.overflow = {} /\ ~ol'.ro /\ ~ol'.mo /\ ~ioObserving')]_vars

\* C19: after a reflow pass over a non-empty list an item is in Overflow iff
\* its measured top is strictly greater than the top of the "more" slot; an
\* item whose top equals it is Visible.
C19_StrictlyBelowOverflows ==
  (PassDone /\ items # <<>>) =>
    \E moreFirst \in BOOLEAN :
      LET top == Tops(items, last.pin, moreFirst)
      IN \A e \in Range(items) : (e \in ol.overflow <=> top[e] > top[More])

\* C19 witness: a pass left the pinned item, which shares the line of "more",
\* Visible and put an item of a lower line in Overflow.
C19_Witness ==
  PassDone /\ last.pin # NoPin /\ last.pin \in Visible /\ ol.overflow # {}

\* C20: by the end of every reflow pass the measurement overrides are undone:
\* the row no longer wraps and "more" no longer has the front-of-order
\* override, whether or not an item overflowed.  (The pinned item's override
\* is removed by every pass, at line 316.)
C20_OverridesUndone ==
  PassDone => (~ol.flexWrap /\ ~ol.moreOrder)

C17_SnappedToIncrement ==
  [][(\E min \in Minimums, max \in Maximums, step \in Steps :
        UpdateConstraints(min, max, step)) =>
       /\ qs'.min <= qs'.value
       /\ GetEffectiveMax(qs') # NoMaximum => qs'.value <= GetEffectiveMax(qs')
       /\ (qs'.value - qs'.min) % qs'.step = 0]_vars

\* C18: after renderCartBubble the current cart count is the previous count
\* plus the item count when the update comes from the product form, and the
\* item count otherwise, and session storage holds that count; also for
\* counts of BubbleLimit and more.
C18_CountAndStorage ==
  cart.rendered =>
    (CurrentCartCount(cart) = cart.count /\ cart.stored = cart.count)

C22_PinnedRequest ==
  [][(\E pin \in {NoPin} \cup ItemIds, moreFirst \in BOOLEAN :
        ReflowRequest(pin, moreFirst)) =>
       /\ ol'.passes = 1
       /\ IF last'.pin = NoPin
          THEN PrefixSplit(FitCount)'
          ELSE (MeasuredWidth(More) + MeasuredWidth(last'.pin) <= MeasuredContainer)
                 => (last'.pin \in Visible')]_vars

\* C24: every 'reflow' request runs exactly one reflow pass, however often the
\* host was attached, detached and attached again before.
C24_OnePassPerRequest ==
  [][(\E pin \in {NoPin} \cup ItemIds, moreFirst \in BOOLEAN :
        ReflowRequest(pin, moreFirst)) => ol'.passes = 1]_vars

\* C23: every notification that sets #scheduled is eventually followed by a
\* completed reflow pass that leaves #scheduled false again.
C23_ScheduledReflowHappens ==
  scheduled ~> (~scheduled /\ PassDone)

\* C23 witness: on an attached, enabled list a notification has scheduled a
\* reflow whose timer task is queued.
C23_Witness ==
  scheduled /\ attached /\ disabledAttr # "true" /\ timeoutPending = 1

\* the lifecycle callbacks of the selector; every other step of QuantityNext
\* is a quantity operation: a click on plus or minus, a blur of the input, a
\* cart update, new constraints
QsLifecycle == QsConnect \/ QsDisconnect

WithinBounds(q) ==
  /\ q.min <= q.value
  /\ GetEffectiveMax(q) # NoMaximum => q.value <= GetEffectiveMax(q)

C26_ButtonsFollowValue ==
  ~qs.cartVariant =>
    /\ qs.serverDisabledMinus => qs.renderedMinus
    /\ qs.serverDisabledPlus => qs.renderedPlus
    /\ (qs.initialized /\ ~qs.renderedMinus /\ ~qs.renderedPlus) =>
         /\ qs.minusDisabled <=> qs.value <= qs.min
         /\ qs.plusDisabled <=>
              (GetEffectiveMax(qs) # NoMaximum /\ qs.value >= GetEffectiveMax(qs))

\* C27: a call of fetchUpdatedSection leaves no earlier request pending, and
\* no response is applied (morphs the DOM or dispatches variant-update) unless
\* it answers the request issued last.
C27_OnlyLatestApplied ==
  /\ ~vp.stale
  /\ \A r \in Requests :
       r < vp.issued => vp.requests[r] \notin {"fetching", "reading"}
  /\ vp.applied # 0 => vp.requests[vp.applied] = "done"

C27_Witness ==
  /\ vp.issued >= 2
  /\ vp.applied = vp.issued
  /\ \E r \in Requests : r < vp.issued /\ vp.requests[r] = "aborted"

\* C28: after updateSelectedOption selected radio i of a tracked fieldset, the
\* history of the fieldset holds at most two indices with i first, radio i has
\* currentChecked = 'true', at most one radio has previousChecked = 'true' and
\* no other radio has currentChecked = 'true'.
C28_SelectionMarked ==
  vp.tracked =>
    LET f == vp.selected[1]
        i == vp.selected[2]
        h == vp.checkedIndices[f]
    IN /\ Len(h) <= 2
       /\ h[1] = i
       /\ vp.cur[f][i]
       /\ Cardinality({j \in Radios : vp.prev[f][j]}) <= 1
       /\ \A j \in Radios \ {i} : ~vp.cur[f][j]

\* the tabs and panels show the active index
ActiveShown ==
  /\ ss.active \in TabsOf(ss)
  /\ ss.selected = {ss.active}
  /\ ss.tabbable = {ss.active}
  /\ TabsOf(ss) \ {ss.active} \subseteq ss.inert

\* a call of select with an index out of range or equal to the active one
SelectNothing ==
  \E index \in -1..MaxTabs, instant \in BOOLEAN :
    /\ index \notin TabsOf(ss) \ {ss.active}
    /\ Select(index, instant)

\* C29: once the slideshow is set up, after every select, tab click or focus,
\* key, panel Tab traversal, breakpoint change and completed or cancelled
\* drag the active index is within [0, tabs.length - 1], the tab at the active
\* index is the only one with aria-selected = 'true' and tabindex 0, and every
\* other panel is inert; select with an index out of range or equal to the
\* active one changes nothing.
C29_ActiveTabShown ==
  /\ [](ss.initialized => ActiveShown)
  /\ [][SelectNothing => ss' = ss]_vars

C29_Witness ==
  /\ ss.initialized
  /\ ss.n = MaxTabs
  /\ ss.active = 1
  /\ ss.drag # NoDrag /\ ss.drag.prevent /\ ss.drag.complete
  /\ ss.drag.target = 1

\* the menu is hidden by the header and the window is wider than it was then
HiddenThoughWider ==
  /\ hd.connected
  /\ hd.menuHidden
  /\ hd.menuDrawerHiddenWidth # NoWidth
  /\ hd.window > hd.menuDrawerHiddenWidth

\* C30: once the header has handled an overflowMinimum event, the menu is
\* hidden and the drawer shown exactly when the last event carried
\* minimumReached = true and no resize has shown the menu since; a resize of
\* the header observed while the window is wider than the width recorded at
\* hiding shows the menu and hides the drawer; and the menu does not stay
\* hidden forever while the window is wider than that width and a resize of
\* the header is to be delivered.
C30_MenuFollowsMinimum ==
  /\ [](hd.heard # "none" =>
          /\ hd.menuHidden <=> (hd.heard = "true" /\ ~hd.widened)
          /\ hd.drawerHidden <=> ~hd.menuHidden)
  /\ [][(HeaderResizeObserved /\ hd.menuDrawerHiddenWidth # NoWidth
           /\ hd.window > hd.menuDrawerHiddenWidth)
          => (~hd'.menuHidden /\ hd'.drawerHidden)]_vars
  /\ (HiddenThoughWider /\ hd.resizePending) ~> ~HiddenThoughWider

C30_Witness ==
  /\ hd.heard = "true"
  /\ hd.widened
  /\ ~hd.menuHidden
  /\ hd.drawerHidden
  /\ hd.window > 2

====
